---- MODULE Spec2Model ----
(***************************************************************************)
(* Model of package validation (src/validator.go): Validate walks the      *)
(* fields of a struct, reads each field's `validate` tag, splits it into   *)
(* a validator name and a parameter and calls the validator on the         *)
(* field's value, collecting one ValidationError per failing field.        *)
(*                                                                         *)
(* Go strings are modelled as sequences of one-character strings, so that  *)
(* strings.Split and strconv.Atoi are computed character by character.     *)
(***************************************************************************)
EXTENDS Integers, Sequences, FiniteSets

VARIABLES
    v,        \* the argument of Validate (its dynamic type and fields)
    pc,       \* "call" | "loop" | "done": position inside Validate
    i,        \* loop index of Validate (1-based; Go's i + 1)
    vs,       \* the ValidationErrors slice being built
    result,   \* what the call returned (or that it panicked)
    called,   \* history: indices of the fields a validator was called on
    contrib,  \* history: per field, the entries the loop appended for it
    run,      \* number of the current Validate call on the same value
    prev      \* history: result of the previous call on the same value

vars == <<v, pc, i, vs, result, called, contrib, run, prev>>

----------------------------------------------------------------------------
(* Bounds of the explored inputs *)

MaxFields == 2      \* fields of a multi-field struct
MaxSliceLen == 2    \* elements of a []string / []int field
MaxInt == 2         \* int fields range over -MaxInt..MaxInt
MaxStrLen == 3      \* string fields are the prefixes of "abcd..." up to this length
MaxCalls == 2       \* Validate calls on the same value

----------------------------------------------------------------------------
(* Strings *)

Range(s) == {s[k] : k \in 1..Len(s)}

Digits == <<"0", "1", "2", "3", "4", "5", "6", "7", "8", "9">>

IsDigit(c) == \E d \in 1..10 : Digits[d] = c

DigitVal(c) == (CHOOSE d \in 1..10 : Digits[d] = c) - 1

\* strconv.Atoi, the fast path taken by every string shorter than 19 bytes
\* (10 on a 32-bit int): optional sign, then one or more decimal digits.
\* A syntax error returns the value 0 together with the error.
RECURSIVE AtoiDigits(_, _)
AtoiDigits(s, n) ==
    IF s = <<>> THEN [ok |-> TRUE, val |-> n]
    ELSE IF ~IsDigit(Head(s)) THEN [ok |-> FALSE, val |-> 0]
    ELSE AtoiDigits(Tail(s), n * 10 + DigitVal(Head(s)))

Atoi(s) ==
    IF s = <<>> THEN [ok |-> FALSE, val |-> 0]
    ELSE LET signed == Head(s) \in {"-", "+"}
             body   == IF signed THEN Tail(s) ELSE s
         IN  IF body = <<>> THEN [ok |-> FALSE, val |-> 0]
             ELSE LET r == AtoiDigits(body, 0)
                  IN  IF r.ok /\ Head(s) = "-"
                      THEN [ok |-> TRUE, val |-> 0 - r.val]
                      ELSE r

\* strings.Split(s, sep) for a one-byte separator: always at least one part.
RECURSIVE SplitAcc(_, _, _)
SplitAcc(s, sep, cur) ==
    IF s = <<>> THEN <<cur>>
    ELSE IF Head(s) = sep THEN <<cur>> \o SplitAcc(Tail(s), sep, <<>>)
    ELSE SplitAcc(Tail(s), sep, Append(cur, Head(s)))

Split(s, sep) == SplitAcc(s, sep, <<>>)

----------------------------------------------------------------------------
(* Errors.  isVE tells whether the dynamic type is ValidationError; id is   *)
(* the message (the sentinels are told apart by it); pos is the %d of an    *)
(* errors.Errorf message, -1 when the message has none.                     *)

New(msg) == [isVE |-> FALSE, id |-> msg, pos |-> 0 - 1]

Errorf(msg, p) == [isVE |-> FALSE, id |-> msg, pos |-> p]

ErrNotStruct == New("wrong argument given, should be a struct")

ErrInvalidValidatorSyntax == New("invalid validator syntax")

ErrValidateForUnexportedFields ==
    New("validation for unexported field is not allowed")

ValidationError(e) == [e EXCEPT !.isVE = TRUE]

NilErr == New("<nil>")

\* What a validator call does: return (ok, err), or panic.
Ret(ok, err) == [ok |-> ok, err |-> err, panic |-> FALSE]

Panic == [ok |-> FALSE, err |-> NilErr, panic |-> TRUE]

Success == Ret(TRUE, NilErr)

SyntaxFailure == Ret(FALSE, ValidationError(ErrInvalidValidatorSyntax))

----------------------------------------------------------------------------
(* Field values.  A reflect.Value of a struct field: typ is the dynamic     *)
(* type the validators' type switches see ("string", "int", "[]string",     *)
(* "[]int", or "other" for every type no case matches); the component of    *)
(* that type holds the value and the other components are unused.           *)

StrVal(s) == [typ |-> "string", s |-> s, n |-> 0, ss |-> <<>>, ns |-> <<>>]

IntVal(n) == [typ |-> "int", s |-> <<>>, n |-> n, ss |-> <<>>, ns |-> <<>>]

StrSliceVal(ss) == [typ |-> "[]string", s |-> <<>>, n |-> 0, ss |-> ss, ns |-> <<>>]

IntSliceVal(ns) == [typ |-> "[]int", s |-> <<>>, n |-> 0, ss |-> <<>>, ns |-> ns]

OtherVal == [typ |-> "other", s |-> <<>>, n |-> 0, ss |-> <<>>, ns |-> <<>>]

\* `for i, elem := range slice { if bad(elem) { return ... i } }`: the 0-based
\* index at which the loop returns, -1 when it runs to its end.
RECURSIVE RangeLoop(_, _)
RangeLoop(bad, k) ==
    IF k > Len(bad) THEN 0 - 1
    ELSE IF bad[k] THEN k - 1
    ELSE RangeLoop(bad, k + 1)

FirstBad(bad) == RangeLoop(bad, 1)

\* The result of a slice loop that fails with Errorf(msg, i) at the first bad
\* element and returns (true, nil) after the loop.
SliceResult(bad, msg) ==
    IF FirstBad(bad) >= 0
    THEN Ret(FALSE, ValidationError(Errorf(msg, FirstBad(bad))))
    ELSE Success

----------------------------------------------------------------------------
(* The validators *)

validateLen(fv, value) ==
    LET expected == Atoi(value) IN
    IF ~expected.ok THEN SyntaxFailure
    ELSE CASE fv.typ = "string" ->
                IF Len(fv.s) # expected.val
                THEN Ret(FALSE, ValidationError(New("lengths don't match")))
                ELSE Success
           [] fv.typ = "[]string" ->
                SliceResult([k \in 1..Len(fv.ss) |-> Len(fv.ss[k]) # expected.val],
                            "The string on position %d is shorter than allowed")
           [] OTHER -> SyntaxFailure

NotAllowed == Ret(FALSE, ValidationError(New("Field value isn't allowed")))

\* The orders in which `for key := range tokensSet` may visit the keys of the
\* map: Go leaves the iteration order of a map unspecified.
Orders(S) == {o \in [1..Cardinality(S) -> S] : Range(o) = S}

\* validateIn, case int: the loop over the map's keys in the order `order`.
RECURSIVE InIntLoop(_, _, _)
InIntLoop(order, k, n) ==
    IF k > Len(order) THEN NotAllowed
    ELSE LET val == Atoi(order[k]) IN
         IF ~val.ok THEN SyntaxFailure
         ELSE IF val.val = n THEN Success
         ELSE InIntLoop(order, k + 1, n)

\* validateIn, case []int: the conversion loop over the map's keys in the
\* order `order`, then the loop over the slice.
RECURSIVE InIntsLoop(_, _, _, _)
InIntsLoop(order, k, tokensSetInt, ns) ==
    IF k > Len(order)
    THEN SliceResult([j \in 1..Len(ns) |-> ns[j] \notin tokensSetInt],
                     "The integer on position %d is less than allowed")
    ELSE LET elemInt == Atoi(order[k]) IN
         IF ~elemInt.ok THEN SyntaxFailure
         ELSE InIntsLoop(order, k + 1, tokensSetInt \cup {elemInt.val}, ns)

\* The set of results validateIn can return: one per iteration order.
validateIn(fv, value) ==
    IF Len(value) = 0 THEN {NotAllowed}
    ELSE LET tokens    == Split(value, ",")
             tokensSet == Range(tokens)
         IN  CASE fv.typ = "string" ->
                    {IF fv.s \in tokensSet THEN Success ELSE NotAllowed}
               [] fv.typ = "int" ->
                    {InIntLoop(order, 1, fv.n) : order \in Orders(tokensSet)}
               [] fv.typ = "[]string" ->
                    {SliceResult([k \in 1..Len(fv.ss) |-> fv.ss[k] \notin tokensSet],
                                 "The string on position %d is not allowed")}
               [] fv.typ = "[]int" ->
                    {InIntsLoop(order, 1, {}, fv.ns) : order \in Orders(tokensSet)}
               [] OTHER -> {SyntaxFailure}

\* validateMin with the string test written `>`: off by one at the bound.
validateMinStrict(fv, value) ==
    LET min == Atoi(value) IN
    IF ~min.ok THEN SyntaxFailure
    ELSE CASE fv.typ = "string" ->
                IF Len(fv.s) > min.val THEN Success
                ELSE Ret(FALSE, ValidationError(New("String length is less than allowed")))
           [] fv.typ = "int" ->
                IF fv.n >= min.val THEN Success
                ELSE Ret(FALSE, ValidationError(New("Integer is less than allowed")))
           [] fv.typ = "[]int" ->
                SliceResult([k \in 1..Len(fv.ns) |-> fv.ns[k] < min.val],
                            "The integer on position %d is less than allowed")
           [] fv.typ = "[]string" ->
                SliceResult([k \in 1..Len(fv.ss) |-> Len(fv.ss[k]) < min.val],
                            "The string on position %d is shorter than allowed")
           [] OTHER -> SyntaxFailure

validateMin(fv, value) ==
    LET min == Atoi(value) IN
    IF ~min.ok THEN SyntaxFailure
    ELSE CASE fv.typ = "string" ->
                IF Len(fv.s) >= min.val THEN Success
                ELSE Ret(FALSE, ValidationError(New("String length is less than allowed")))
           [] fv.typ = "int" ->
                IF fv.n >= min.val THEN Success
                ELSE Ret(FALSE, ValidationError(New("Integer is less than allowed")))
           [] fv.typ = "[]int" ->
                SliceResult([k \in 1..Len(fv.ns) |-> fv.ns[k] < min.val],
                            "The integer on position %d is less than allowed")
           [] fv.typ = "[]string" ->
                SliceResult([k \in 1..Len(fv.ss) |-> Len(fv.ss[k]) < min.val],
                            "The string on position %d is shorter than allowed")
           [] OTHER -> SyntaxFailure

\* limits[1] is read before any check: a parameter without a comma splits
\* into one part and the index expression panics.  err is assigned twice,
\* so only the second Atoi's error is looked at; a failed first Atoi leaves
\* min = 0.
validateBetween(fv, value) ==
    LET limits == Split(value, ",") IN
    IF Len(limits) < 2 THEN Panic
    ELSE LET min == Atoi(limits[1])
             max == Atoi(limits[2])
         IN  IF ~max.ok THEN SyntaxFailure
             ELSE CASE fv.typ = "string" ->
                         IF min.val <= Len(fv.s) /\ Len(fv.s) <= max.val THEN Success
                         ELSE Ret(FALSE, ValidationError(New("String length is not allowed")))
                    [] fv.typ = "int" ->
                         IF min.val <= fv.n /\ fv.n <= max.val THEN Success
                         ELSE Ret(FALSE, ValidationError(New("Integer is more than allowed")))
                    [] fv.typ = "[]int" ->
                         SliceResult([k \in 1..Len(fv.ns) |->
                                         fv.ns[k] > max.val \/ fv.ns[k] < min.val],
                                     "The integer on position %d is more than allowed")
                    [] fv.typ = "[]string" ->
                         SliceResult([k \in 1..Len(fv.ss) |->
                                         Len(fv.ss[k]) > max.val \/ Len(fv.ss[k]) < min.val],
                                     "The string on position %d is longer than allowed")
                    [] OTHER -> SyntaxFailure

validateMax(fv, value) ==
    LET max == Atoi(value) IN
    IF ~max.ok THEN SyntaxFailure
    ELSE CASE fv.typ = "string" ->
                IF Len(fv.s) <= max.val THEN Success
                ELSE Ret(FALSE, ValidationError(New("String length is more than allowed")))
           [] fv.typ = "int" ->
                IF fv.n <= max.val THEN Success
                ELSE Ret(FALSE, ValidationError(New("Integer is more than allowed")))
           [] fv.typ = "[]int" ->
                SliceResult([k \in 1..Len(fv.ns) |-> fv.ns[k] > max.val],
                            "The integer on position %d is more than allowed")
           [] fv.typ = "[]string" ->
                SliceResult([k \in 1..Len(fv.ss) |-> Len(fv.ss[k]) > max.val],
                            "The string on position %d is longer than allowed")
           [] OTHER -> SyntaxFailure

----------------------------------------------------------------------------
(* Struct fields and tags *)

Colon == <<":">>

kLen == <<"l", "e", "n">>

kIn == <<"i", "n">>

kMin == <<"m", "i", "n">>

kMax == <<"m", "a", "x">>

kBetween == <<"b", "e", "t", "w", "e", "e", "n">>

kFoo == <<"f", "o", "o">>

\* The keys of the validators map of Validate.
ValidatorNames == {kLen, kIn, kMin, kMax, kBetween}

\* validators[name](fv, value): the set of results the call can have.
CallValidator(name, fv, value) ==
    CASE name = kLen -> {validateLen(fv, value)}
      [] name = kIn -> validateIn(fv, value)
      [] name = kMin -> {validateMin(fv, value)}
      [] name = kMax -> {validateMax(fv, value)}
      [] name = kBetween -> {validateBetween(fv, value)}

\* A struct field: IsExported(), Tag.Lookup("validate") (hasTag, tag) and the
\* field's value.
Field(exported, hasTag, tag, val) ==
    [exported |-> exported, hasTag |-> hasTag, tag |-> tag, val |-> val]

\* FieldBranch with the tag split before the IsExported test.
FieldBranchSplitFirst(f) ==
    IF ~f.hasTag THEN "skip"
    ELSE LET rule == Split(f.tag, ":") IN
         IF Len(rule) # 2 THEN "syntax"
         ELSE IF ~f.exported THEN "unexported"
         ELSE IF rule[1] \notin ValidatorNames THEN "unknown"
         ELSE "call"

\* What one iteration of Validate's loop does with a field, in the order of
\* the code's tests: no tag, unexported, split, lookup, call.
FieldBranch(f) ==
    IF ~f.hasTag THEN "skip"
    ELSE IF ~f.exported THEN "unexported"
    ELSE LET rule == Split(f.tag, ":") IN
         IF Len(rule) # 2 THEN "syntax"
         ELSE IF rule[1] \notin ValidatorNames THEN "unknown"
         ELSE "call"

----------------------------------------------------------------------------
(* The inputs explored *)

\* Parameter texts (the part of a tag after the colon).
Params ==
    {
     <<>>,                                      \* ""
     <<"2">>,                                   \* "2"
     <<"-", "1">>,                              \* "-1"
     <<"0">>,                                   \* "0"
     <<"+", "1">>,                              \* "+1"
     <<"2", "-">>,                              \* "2-"
     <<"%", "1">>,                              \* "%1"
     <<" ", "2">>,                              \* " 2"
     <<"x">>,                                   \* "x"
     <<"1", ",", "2">>,                         \* "1,2"
     <<"-", "1", ",", "1">>,                    \* "-1,1"
     <<"2", ",", "1">>,                         \* "2,1"
     <<"x", ",", "2">>,                         \* "x,2"
     <<"2", ",", "x">>,                         \* "2,x"
     <<"1", ",", "x">>,                         \* "1,x"
     <<",">>,                                   \* ","
     <<"1", ",">>,                              \* "1,"
     <<",", "1">>,                              \* ",1"
     <<"1", ",", "2", ",", "3">>,               \* "1,2,3"
     <<"a", "b", ",", "c">>                     \* "ab,c"
    }

\* Tags: every validator name and one unknown name with every parameter, and
\* tags that do not split into two parts.
Tags ==
    {name \o Colon \o p : name \in ValidatorNames \cup {kFoo}, p \in Params}
    \cup {<<>>, kLen, kLen \o Colon \o <<"2">> \o Colon \o <<"3">>, Colon \o <<"2">>}

Alphabet == <<"a", "b", "c", "d", "e", "f", "g", "h">>

Strs == {SubSeq(Alphabet, 1, n) : n \in 0..MaxStrLen}

Ints == (0 - MaxInt)..MaxInt

ElemStrs == {<<>>, <<"a", "b">>}

ElemInts == {0 - 1, 2}

SlicesOf(S) == UNION {[1..n -> S] : n \in 0..MaxSliceLen}

Values ==
    {StrVal(s) : s \in Strs} \cup {IntVal(n) : n \in Ints}
    \cup {StrSliceVal(ss) : ss \in SlicesOf(ElemStrs)}
    \cup {IntSliceVal(ns) : ns \in SlicesOf(ElemInts)}
    \cup {OtherVal}

\* Every field of the pools above: tagged or not, exported or not.
AnyField ==
    {Field(e, TRUE, t, val) : e \in BOOLEAN, t \in Tags, val \in Values}
    \cup {Field(e, FALSE, <<>>, val) : e \in BOOLEAN, val \in Values}

\* Fields for the structs of several fields, one or two per branch of the loop.
SampleFields ==
    {
     Field(FALSE, FALSE, <<>>, StrVal(<<"a">>)),
     Field(FALSE, TRUE, kLen \o Colon \o <<"2">>, StrVal(<<>>)),
     Field(FALSE, TRUE, kBetween \o Colon \o <<"2">>, StrVal(<<"a", "b">>)),
     Field(TRUE, TRUE, kLen \o Colon \o <<"2">>, StrVal(<<"a", "b">>)),
     Field(TRUE, TRUE, kLen \o Colon \o <<"2">>, StrVal(<<"a", "b", "c">>)),
     Field(TRUE, TRUE, kLen \o Colon \o <<"%", "1">>, StrVal(<<"a", "b", "c">>)),
     Field(TRUE, TRUE, kLen, StrVal(<<"a", "b">>)),
     Field(TRUE, TRUE, kFoo \o Colon \o <<"x">>, StrVal(<<"a", "b">>)),
     Field(TRUE, TRUE, kIn \o Colon \o <<"1", ",", "x">>, IntVal(1)),
     Field(TRUE, TRUE, kMin \o Colon \o <<"2">>, StrSliceVal(<<<<>>, <<>>>>)),
     Field(TRUE, TRUE, kMax \o Colon \o <<"0">>, IntVal(2)),
     Field(TRUE, TRUE, kMin \o Colon \o <<"2">>, OtherVal),
     Field(TRUE, TRUE, kBetween \o Colon \o <<"-", "1", ",", "2">>, IntSliceVal(<<0 - 1, 2>>)),
     Field(TRUE, TRUE, kBetween \o Colon \o <<"2">>, StrVal(<<"a", "b">>))
    }

\* reflect.TypeOf(v).Kind() of the argument; "nil" is the nil interface
\* value, for which reflect.TypeOf returns a nil Type.
NonStructKinds == {"nil", "ptr", "map", "slice", "string", "int"}

Input(kind, fields) == [kind |-> kind, fields |-> fields]

Inputs ==
    {Input(k, <<>>) : k \in NonStructKinds}
    \cup {Input("struct", <<f>>) : f \in AnyField}
    \cup {Input("struct", fs) : fs \in UNION {[1..n -> SampleFields] : n \in 0..MaxFields}}

----------------------------------------------------------------------------
(* Validate *)

NumField == Len(v.fields)

NoResult == [kind |-> "none", err |-> NilErr, vs |-> <<>>]

\* Outcomes of a call: return nil, return err, return vs, or a panic.
ReturnNil == [kind |-> "nil", err |-> NilErr, vs |-> <<>>]

ReturnErr(e) == [kind |-> "error", err |-> e, vs |-> <<>>]

ReturnErrors(es) == [kind |-> "errors", err |-> NilErr, vs |-> es]

Panicked == [kind |-> "panic", err |-> NilErr, vs |-> <<>>]

Init ==
    /\ v \in Inputs
    /\ pc = "call"
    /\ i = 1
    /\ vs = <<>>
    /\ result = NoResult
    /\ called = <<>>
    /\ contrib = [k \in 1..Len(v.fields) |-> <<>>]
    /\ run = 1
    /\ prev = NoResult

\* Lines 32-46: reflect.TypeOf(nil) is nil and vType.Kind() on it panics;
\* any other non-struct returns ErrNotStruct; a struct enters the loop.
Enter ==
    /\ pc = "call"
    /\ IF v.kind = "nil" THEN pc' = "done" /\ result' = Panicked
       ELSE IF v.kind # "struct" THEN pc' = "done" /\ result' = ReturnErr(ErrNotStruct)
       ELSE pc' = "loop" /\ result' = result
    /\ UNCHANGED <<v, i, vs, called, contrib, run, prev>>

\* Appends e for the field i and goes on with the next field.
AppendAndContinue(e) ==
    /\ vs' = Append(vs, e)
    /\ contrib' = [contrib EXCEPT ![i] = Append(@, e)]
    /\ i' = i + 1
    /\ UNCHANGED <<v, pc, result, called, run, prev>>

\* Lines 49-51: no validate tag.
SkipUntagged ==
    /\ pc = "loop" /\ i <= NumField
    /\ FieldBranch(v.fields[i]) = "skip"
    /\ i' = i + 1
    /\ UNCHANGED <<v, pc, vs, result, called, contrib, run, prev>>

\* Lines 52-55.
RejectUnexported ==
    /\ pc = "loop" /\ i <= NumField
    /\ FieldBranch(v.fields[i]) = "unexported"
    /\ AppendAndContinue(ValidationError(ErrValidateForUnexportedFields))

\* Lines 56-60.
RejectRule ==
    /\ pc = "loop" /\ i <= NumField
    /\ FieldBranch(v.fields[i]) = "syntax"
    /\ AppendAndContinue(ValidationError(ErrInvalidValidatorSyntax))

\* Lines 61-65.
RejectValidator ==
    /\ pc = "loop" /\ i <= NumField
    /\ FieldBranch(v.fields[i]) = "unknown"
    /\ AppendAndContinue(ValidationError(New("Unexpected validator option")))

\* Lines 66-75: the validator call and what the loop does with its result.
\* A panic of the validator unwinds Validate.
Check ==
    /\ pc = "loop" /\ i <= NumField
    /\ FieldBranch(v.fields[i]) = "call"
    /\ LET rule == Split(v.fields[i].tag, ":") IN
       \E r \in CallValidator(rule[1], v.fields[i].val, rule[2]) :
          /\ called' = Append(called, i)
          /\ IF r.panic
             THEN pc' = "done" /\ result' = Panicked /\ UNCHANGED <<i, vs, contrib>>
             ELSE IF r.ok
             THEN i' = i + 1 /\ UNCHANGED <<pc, result, vs, contrib>>
             ELSE IF ~r.err.isVE
             THEN pc' = "done" /\ result' = ReturnErr(r.err) /\ UNCHANGED <<i, vs, contrib>>
             ELSE /\ vs' = Append(vs, r.err)
                  /\ contrib' = [contrib EXCEPT ![i] = Append(@, r.err)]
                  /\ i' = i + 1
                  /\ UNCHANGED <<pc, result>>
    /\ UNCHANGED <<v, run, prev>>

\* ReturnValue without the len(vs) == 0 test.
ReturnValueAlways(es) == ReturnErrors(es)

\* Lines 77-81.
ReturnValue(es) == IF Len(es) = 0 THEN ReturnNil ELSE ReturnErrors(es)

Return ==
    /\ pc = "loop" /\ i > NumField
    /\ pc' = "done"
    /\ result' = ReturnValue(vs)
    /\ UNCHANGED <<v, i, vs, called, contrib, run, prev>>

\* The caller validates the same value again (a call that returned).
Revalidate ==
    /\ pc = "done" /\ result.kind # "panic" /\ run < MaxCalls
    /\ pc' = "call"
    /\ i' = 1
    /\ vs' = <<>>
    /\ result' = NoResult
    /\ called' = <<>>
    /\ contrib' = [k \in 1..Len(v.fields) |-> <<>>]
    /\ run' = run + 1
    /\ prev' = result
    /\ UNCHANGED v

Next ==
    \/ Enter
    \/ SkipUntagged
    \/ RejectUnexported
    \/ RejectRule
    \/ RejectValidator
    \/ Check
    \/ Return
    \/ Revalidate

Spec == Init /\ [][Next]_vars

----------------------------------------------------------------------------
(* Vocabulary of the properties *)

IsStruct == v.kind = "struct"

Returned == pc = "done" /\ result.kind # "panic"

\* Field j has been handled by the loop of the current call.
Processed(j) == j < i

\* The validator call on field j panicked.
PanickedAt(j) == pc = "done" /\ result.kind = "panic" /\ i = j

Rule(f) == Split(f.tag, ":")

SyntaxEntry == ValidationError(ErrInvalidValidatorSyntax)

UnexportedEntry == ValidationError(ErrValidateForUnexportedFields)

RECURSIVE Flatten(_)
Flatten(ss) == IF ss = <<>> THEN <<>> ELSE Head(ss) \o Flatten(Tail(ss))

\* The entries a field can contribute, by the branch the loop takes for it.
FieldEntries(f) ==
    CASE FieldBranch(f) = "skip" -> {<<>>}
      [] FieldBranch(f) = "unexported" -> {<<UnexportedEntry>>}
      [] FieldBranch(f) = "syntax" -> {<<SyntaxEntry>>}
      [] FieldBranch(f) = "unknown" ->
            {<<ValidationError(New("Unexpected validator option"))>>}
      [] OTHER ->
            {IF r.ok THEN <<>> ELSE <<r.err>> :
                r \in {x \in CallValidator(Rule(f)[1], f.val, Rule(f)[2]) : ~x.panic}}

\* A numeric parameter of len, min, max or between that does not parse.
BadNumber(f) ==
    \/ Rule(f)[1] \in {kLen, kMin, kMax} /\ ~Atoi(Rule(f)[2]).ok
    \/ /\ Rule(f)[1] = kBetween
       /\ LET limits == Split(Rule(f)[2], ",") IN
             \/ Len(limits) < 2
             \/ ~Atoi(limits[1]).ok
             \/ ~Atoi(limits[2]).ok

\* A field type the validator named in the tag does not support.
Unsupported(f) ==
    \/ f.val.typ = "other"
    \/ Rule(f)[1] = kLen /\ f.val.typ \in {"int", "[]int"}

\* min:n, max:n, between:lo,hi with integers for n, lo and hi.
WellFormedBound(f) ==
    \/ Rule(f)[1] \in {kMin, kMax} /\ Atoi(Rule(f)[2]).ok
    \/ /\ Rule(f)[1] = kBetween
       /\ LET limits == Split(Rule(f)[2], ",") IN
             Len(limits) = 2 /\ Atoi(limits[1]).ok /\ Atoi(limits[2]).ok

\* The numbers the bound is about: the length of a string, the value of an
\* int, each element's length or value of a slice.
Measures(fv) ==
    CASE fv.typ = "string" -> {Len(fv.s)}
      [] fv.typ = "int" -> {fv.n}
      [] fv.typ = "[]string" -> {Len(fv.ss[k]) : k \in 1..Len(fv.ss)}
      [] fv.typ = "[]int" -> {fv.ns[k] : k \in 1..Len(fv.ns)}
      [] OTHER -> {}

BoundHolds(f, x) ==
    LET limits == Split(Rule(f)[2], ",") IN
    CASE Rule(f)[1] = kMin -> Atoi(Rule(f)[2]).val <= x
      [] Rule(f)[1] = kMax -> x <= Atoi(Rule(f)[2]).val
      [] OTHER -> Atoi(limits[1]).val <= x /\ x <= Atoi(limits[2]).val

CountOf(e, es) == Cardinality({k \in 1..Len(es) : es[k] = e})

----------------------------------------------------------------------------
(* Properties *)

\* C1: for every argument that is not a struct, Validate returns exactly
\* ErrNotStruct, not wrapped in ValidationErrors, before any field is
\* enumerated or any validator is called.
C1_NonStructReturnsErrNotStruct ==
    ~IsStruct =>
        /\ pc # "loop"
        /\ called = <<>> /\ vs = <<>> /\ i = 1
        /\ pc = "done" => result = ReturnErr(ErrNotStruct)

\* C2: for every struct, Validate handles every field in declaration order
\* and returns one entry per failing tagged field and none for any other, in
\* declaration order; no failure in a field stops the later fields.
C2_OneEntryPerFailingFieldInOrder ==
    (IsStruct /\ pc = "done") =>
        /\ i = NumField + 1
        /\ result = ReturnValue(Flatten(contrib))
        /\ \A j \in 1..NumField :
              /\ Len(contrib[j]) <= 1
              /\ contrib[j] \in FieldEntries(v.fields[j])

\* C3: Validate on a struct returns nil exactly when no field produced a
\* failure, and never returns an empty ValidationErrors; a struct without
\* fields, or without tagged fields, returns nil.
C3_NilIffNoFailure ==
    (IsStruct /\ pc = "done") =>
        /\ Returned =>
              /\ result = ReturnNil <=> \A j \in 1..NumField : contrib[j] = <<>>
              /\ result.kind = "errors" => Len(result.vs) > 0
              /\ result.kind \in {"nil", "errors"}
        /\ (\A j \in 1..NumField : ~v.fields[j].hasTag) => result = ReturnNil

C3_Witness ==
    /\ IsStruct /\ pc = "done" /\ result = ReturnNil
    /\ NumField = 2 /\ Len(called) = 1
    /\ \E j \in 1..NumField : ~v.fields[j].hasTag

\* C4: every unexported field with a validate tag contributes exactly one
\* ErrValidateForUnexportedFields entry, whatever its tag and value, and no
\* validator is called for it.
C4_UnexportedRejectedBeforeParsing ==
    IsStruct =>
        /\ \A j \in 1..NumField :
              (Processed(j) /\ v.fields[j].hasTag /\ ~v.fields[j].exported) =>
                  /\ contrib[j] = <<UnexportedEntry>>
                  /\ j \notin Range(called)
        /\ Returned =>
              CountOf(UnexportedEntry, result.vs) =
                  Cardinality({j \in 1..NumField :
                                  v.fields[j].hasTag /\ ~v.fields[j].exported})

C4_Witness ==
    /\ IsStruct /\ Returned /\ NumField = 2
    /\ result = ReturnErrors(<<UnexportedEntry, UnexportedEntry>>)
    /\ v.fields[1].tag = kBetween \o Colon \o <<"2">>
    /\ v.fields[2].tag = kLen \o Colon \o <<"2">>

\* C5: for len, min, max and between, a numeric parameter that does not
\* parse makes the field contribute exactly one ErrInvalidValidatorSyntax
\* entry, for every field value and type.
C5_BadNumberIsSyntaxError ==
    IsStruct =>
        \A j \in 1..NumField :
            (FieldBranch(v.fields[j]) = "call" /\ BadNumber(v.fields[j])) =>
                /\ ~PanickedAt(j)
                /\ Processed(j) => contrib[j] = <<SyntaxEntry>>

\* C6: for every validator and parameter, a field of a type the validator
\* does not support yields ErrInvalidValidatorSyntax.
C6_UnsupportedTypeIsSyntaxError ==
    IsStruct =>
        \A j \in 1..NumField :
            (FieldBranch(v.fields[j]) = "call" /\ Unsupported(v.fields[j])) =>
                /\ ~PanickedAt(j)
                /\ Processed(j) => contrib[j] = <<SyntaxEntry>>

\* C7: for in on an int or []int field with a non-empty parameter, a token
\* that is not an integer yields ErrInvalidValidatorSyntax, whatever the value
\* and the token's position.
C7_BadTokenIsSyntaxError ==
    IsStruct =>
        \A j \in 1..NumField :
            LET f == v.fields[j] IN
            ( /\ FieldBranch(f) = "call"
              /\ Rule(f)[1] = kIn
              /\ f.val.typ \in {"int", "[]int"}
              /\ Rule(f)[2] # <<>>
              /\ \E tok \in Range(Split(Rule(f)[2], ",")) : ~Atoi(tok).ok
              /\ Processed(j) ) => contrib[j] = <<SyntaxEntry>>

\* C8: once a Validate call has returned nil, every later call on the same
\* value returns nil, and no call changes the value.
C8_RevalidateIsIdempotent ==
    [][ /\ v' = v
        /\ (pc' = "done" /\ prev' = ReturnNil) => result' = ReturnNil ]_vars

\* C9: min, max and between with integer parameters succeed exactly when
\* the bound holds of the string's length, the int's value or every element
\* of the slice; otherwise they fail with an error other than
\* ErrInvalidValidatorSyntax.
C9_BoundsDecide ==
    IsStruct =>
        \A j \in 1..NumField :
            LET f == v.fields[j] IN
            ( /\ FieldBranch(f) = "call"
              /\ WellFormedBound(f)
              /\ f.val.typ \in {"string", "int", "[]string", "[]int"}
              /\ Processed(j) ) =>
                IF \A x \in Measures(f.val) : BoundHolds(f, x)
                THEN contrib[j] = <<>>
                ELSE /\ Len(contrib[j]) = 1
                     /\ contrib[j][1].isVE
                     /\ contrib[j][1].id # ErrInvalidValidatorSyntax.id

C9_Witness ==
    /\ IsStruct /\ Returned /\ NumField = 1
    /\ Rule(v.fields[1])[1] = kBetween
    /\ Rule(v.fields[1])[2] = <<"-", "1", ",", "1">>
    /\ v.fields[1].val = IntSliceVal(<<0 - 1, 2>>)
    /\ Len(result.vs) = 1 /\ result.vs[1].pos = 1

\* C10: every validator returns (true, nil) or (false, e) with e a
\* ValidationError, for every value and parameter, so Validate on a struct
\* returns nil or a ValidationErrors.
C10_ValidatorsReturnValidationErrors ==
    IsStruct =>
        /\ \A k \in 1..Len(called) :
              LET f == v.fields[called[k]] IN
              \A r \in CallValidator(Rule(f)[1], f.val, Rule(f)[2]) :
                  /\ ~r.panic
                  /\ r.ok => r.err = NilErr
                  /\ ~r.ok => r.err.isVE
        /\ pc = "done" => result.kind \in {"nil", "errors"}

====
